---- MODULE Spec2Model ----
(***************************************************************************)
(* admiral (src/main.rs): one thread per configured item runs a shell      *)
(* command under a static, periodic or streaming policy and sends          *)
(* (position, message) updates over an mpsc channel; the main thread       *)
(* writes each update into its slot and prints the concatenation of the    *)
(* slots whenever it differs from the last printed line.                   *)
(*                                                                         *)
(* Strings are sequences of one-character strings.  A panic in a spawned   *)
(* thread unwinds that thread only (the default panic strategy): its       *)
(* Sender clone is dropped and the rest of the process keeps running.      *)
(***************************************************************************)
EXTENDS Integers, Sequences, FiniteSets, TLC

(* ------------------------------ bounds --------------------------------- *)
\* launches of the command one runner may perform
MaxExec == 2
\* updates all runners together may send
MaxUpdates == 3

(* ----------------------------- characters ------------------------------ *)
LF == "\n"
CR == "\r"
\* a byte sequence that is not valid UTF-8
Invalid == "<FF>"
\* U+FFFD, what from_utf8_lossy puts in place of invalid bytes
Replacement == "<FFFD>"

Range(s) == {s[k] : k \in DOMAIN s}

(* ------------------------- pure functions ------------------------------ *)
None == [some |-> FALSE]
Some(x) == [some |-> TRUE, val |-> x]

LineEnd == {CR, LF}

RECURSIVE TrimStart(_)
TrimStart(s) ==
  IF s # <<>> /\ Head(s) \in LineEnd THEN TrimStart(Tail(s)) ELSE s

RECURSIVE TrimEnd(_)
TrimEnd(s) ==
  IF s # <<>> /\ s[Len(s)] \in LineEnd
    THEN TrimEnd(SubSeq(s, 1, Len(s) - 1))
    ELSE s

\* str::trim_matches(&['\r', '\n']): strips the characters at both ends
trim_matches(s) == TrimEnd(TrimStart(s))

\* String::from_utf8_lossy
from_utf8_lossy(s) ==
  [k \in DOMAIN s |-> IF s[k] = Invalid THEN Replacement ELSE s[k]]

Ok(s) == [ok |-> TRUE, val |-> s]
Err == [ok |-> FALSE, val |-> <<>>]

FirstLF(s) ==
  IF \E k \in DOMAIN s : s[k] = LF
    THEN CHOOSE k \in DOMAIN s : s[k] = LF /\ \A j \in 1..(k - 1) : s[j] # LF
    ELSE 0

\* BufRead::lines over the whole output of one process: one io::Result per
\* line, the "\n" or "\r\n" removed, Err for a line that is not UTF-8
RECURSIVE lines(_)
lines(raw) ==
  IF raw = <<>> THEN <<>>
  ELSE LET n == FirstLF(raw)
           line == IF n = 0 THEN raw ELSE SubSeq(raw, 1, n - 1)
           rest == IF n = 0 THEN <<>> ELSE SubSeq(raw, n + 1, Len(raw))
           body == IF n # 0 /\ line # <<>> /\ line[Len(line)] = CR
                     THEN SubSeq(line, 1, Len(line) - 1)
                     ELSE line
       IN <<IF Invalid \in Range(line) THEN Err ELSE Ok(body)>> \o lines(rest)

\* the slots joined from the last position to the first
RECURSIVE collect_reversed(_)
collect_reversed(v) ==
  IF v = <<>> THEN <<>> ELSE collect_reversed(Tail(v)) \o Head(v)

\* message_vec.iter().cloned().collect::<String>()
RECURSIVE collect(_)
collect(v) == IF v = <<>> THEN <<>> ELSE Head(v) \o collect(Tail(v))

\* `as u64` of a float: negative values saturate to 0
AsU64(x) == IF x < 0 THEN 0 ELSE x

(* --------------------------- configuration ----------------------------- *)
\* A numeric TOML value is kept in thousandths: reload = 1 is 1000,
\* reload = 1.5 is 1500, which is also the product with 1000f64.
Base ==
  [section |-> "table", path |-> [type |-> "string", val |-> "cmd"],
   static |-> "none",
   reload |-> [type |-> "none", milli |-> 0], shell |-> "string"]

StaticItem == [Base EXCEPT !.static = "true"]
StaticReloadItem ==
  [Base EXCEPT !.static = "true",
               !.reload = [type |-> "integer", milli |-> 1000]]
PeriodicItem == [Base EXCEPT !.reload = [type |-> "integer", milli |-> 1000]]
PeriodicFloatItem == [Base EXCEPT !.reload = [type |-> "float", milli |-> 1500]]
StreamingItem == [Base EXCEPT !.path.val = "tail"]
\* items whose command never completes and never writes a line
HangingStaticItem == [StaticItem EXCEPT !.path.val = "wedge"]
HangingPeriodicItem == [PeriodicItem EXCEPT !.path.val = "wedge"]
HangingStreamingItem == [Base EXCEPT !.path.val = "wedge"]
ReloadStringItem ==
  [Base EXCEPT !.path.val = "tail", !.reload = [type |-> "string", milli |-> 0]]
NoPathItem == [Base EXCEPT !.path.type = "none"]
ArrayPathItem == [Base EXCEPT !.path.type = "array"]
IntegerPathItem == [Base EXCEPT !.path.type = "other"]
BadShellItem == [Base EXCEPT !.shell = "other"]
EnvShellItem == [Base EXCEPT !.static = "true", !.shell = "none"]
NotATableItem == [Base EXCEPT !.section = "other"]
MissingItem == [Base EXCEPT !.section = "missing"]

ItemSpecs ==
  {StaticItem, StaticReloadItem, PeriodicItem, PeriodicFloatItem, StreamingItem,
   ReloadStringItem, NoPathItem, ArrayPathItem, IntegerPathItem, BadShellItem,
   EnvShellItem, NotATableItem, MissingItem}

\* items = ["clock", "battery", "load"], each static = true
Scenario ==
  <<[StaticItem EXCEPT !.path.val = "clock"],
    [StaticItem EXCEPT !.path.val = "battery"],
    [StaticItem EXCEPT !.path.val = "load"]>>

\* one item of each policy, one whose runner panics, one without a section
CoreSpecs == {StaticItem, PeriodicItem, StreamingItem, NoPathItem, MissingItem}

HangingSpecs == {HangingStaticItem, HangingPeriodicItem, HangingStreamingItem}

\* the order lists: every single item, the pairs over CoreSpecs, the
\* scenario, and a hanging item before a periodic or a streaming one
Configurations ==
  {<<a>> : a \in ItemSpecs} \cup {<<a, b>> : a, b \in CoreSpecs}
    \cup {Scenario}
    \cup {<<h, b>> : h \in HangingSpecs, b \in {PeriodicItem, StreamingItem}}

\* $SHELL is read only by a runner whose section has no shell field
Environments(list) ==
  IF \E i \in DOMAIN list : list[i].shell = "none"
    THEN {None, Some("sh")}
    ELSE {Some("sh")}

\* what the command writes to its standard output, one of these per launch
CommandOutputs(command) ==
  CASE command = "clock" -> {<<"1", "2", ":", "0", "0", LF>>}
    [] command = "battery" -> {<<"8", "7", "%", LF>>}
    [] command = "load" -> {<<"0", ".", "4", "2", LF>>}
    [] command = "tail" ->
         {<<>>, <<"a", CR, LF, Invalid, LF, "b">>}
    [] command = "wedge" -> {<<>>}
    [] OTHER -> {<<>>, <<LF, "a", CR, LF>>}

\* whether a launched process ever ends or writes a line
Completes(command) == command # "wedge"

\* the runs that fail at run time: "tail" after it wrote its lines, the
\* other commands with nothing on standard output
Fails(command, out) == (command = "tail") <=> (out # <<>>)

\* process::Output of one run: a failed run exits non-zero and writes to
\* its standard error
Runs(command) ==
  {[stdout |-> out,
    status |-> IF Fails(command, out) THEN 1 ELSE 0,
    stderr |-> IF Fails(command, out) THEN <<"e">> ELSE <<>>] :
     out \in CommandOutputs(command)}

(* ------------------- what execute_script reads at start ---------------- *)
\* lines 39-64: the section must be a table and path a string
command(configuration) ==
  IF configuration.section = "table" /\ configuration.path.type = "string"
    THEN Some(configuration.path.val)
    ELSE None

\* is_static where a reload value overrides static = true
is_staticUnlessReload(configuration) ==
  configuration.static = "true" /\ configuration.reload.type = "none"

\* lines 66-69: a static value that is not a boolean counts as false
is_static(configuration) == configuration.static = "true"

\* lines 71-85: milliseconds, or None when reload is absent or not a number
duration(configuration) ==
  CASE configuration.reload.type = "float" ->
         Some(AsU64(configuration.reload.milli))
    [] configuration.reload.type = "integer" ->
         Some(AsU64(configuration.reload.milli))
    [] OTHER -> None

\* lines 87-111: the shell field, else $SHELL
shell(configuration, env) ==
  CASE configuration.shell = "string" -> Some("sh")
    [] configuration.shell = "none" -> env
    [] OTHER -> None

\* lines 39-64 and 87-111: what the runner writes to standard error before
\* it panics, None when the section can be run
diagnostic(configuration, env) ==
  IF configuration.section # "table"
    THEN Some("Failed to find valid section")
  ELSE IF configuration.path.type = "array"
    THEN Some("Invalid path found: arrays are deprecated")
  ELSE IF configuration.path.type = "none" THEN Some("No path found")
  ELSE IF ~command(configuration).some THEN Some("Invalid path found")
  ELSE IF configuration.shell = "other" THEN Some("Invalid shell found")
  ELSE IF ~shell(configuration, env).some
    THEN Some("Could not find your system's shell")
  ELSE None

\* sleep(Duration::from_millis(10)), line 136
RestartPause == 10

(* ------------------------------- state --------------------------------- *)
VARIABLES
  items,          \* the order list, each name with what its section holds
  SHELL,          \* env::var("SHELL").ok()
  mainPc,         \* main thread: "loop", "push", "recv", "settle"
  next,           \* index in items of the name the spawn loop is at
  position,       \* main's position counter
  message_vec,    \* the slots
  print_message,  \* the last line handed to printing
  chan,           \* updates sent and not yet received
  senders,        \* live Sender handles: 0 is main's, i the clone of runner i
  runner,         \* the runner threads, by index in items
  cwd_sets,       \* calls of env::set_current_dir so far
  stderr,         \* the diagnostics written, each with the item's index
  printed,        \* number of lines written to standard output
  last_line,      \* the line written last
  seen,           \* history: the distinct recomputed lines, one per update
  changes,        \* history: updates whose receipt changed the recomputed line
  window,         \* history: the updates of chan sent during the latest settle
                  \* delay are chan[before + 1 .. before + during]
  partial         \* history: print_message was computed on receipt of one of
                  \* two updates that different runners sent during the same
                  \* settle delay, and does not show the other one

vars ==
  <<items, SHELL, mainPc, next, position, message_vec, print_message, chan,
    senders, runner, cwd_sets, stderr, printed, last_line, seen, changes,
    window, partial>>

Unspawned ==
  [pc |-> "unspawned", position |-> 0, is_static |-> FALSE, duration |-> None,
   command |-> "", output |-> <<>>, status |-> 0, errout |-> <<>>,
   rest |-> <<>>, execs |-> 0, sent |-> 0, emitted |-> <<>>, slept |-> None]

\* Update { position, message }, lines 18-21
Update(i, message) == [position |-> runner[i].position, message |-> message]

RECURSIVE Sum(_, _)
Sum(f, S) ==
  IF S = {} THEN 0 ELSE LET x == CHOOSE x \in S : TRUE IN f[x] + Sum(f, S \ {x})

TotalSent == Sum([i \in DOMAIN runner |-> runner[i].sent], DOMAIN runner)

\* send that drops the update while the aggregator is in its settle delay
sendDropsWhileSettling(update) ==
  /\ TotalSent < MaxUpdates
  /\ chan' = IF mainPc = "settle" THEN chan ELSE Append(chan, update)
  /\ window' = window

\* send on a channel that holds one update: the sender waits while it is full
sendBounded(update) ==
  /\ TotalSent < MaxUpdates
  /\ Len(chan) < 1
  /\ chan' = Append(chan, update)
  /\ window' = IF mainPc = "settle"
                 THEN [window EXCEPT !.during = @ + 1]
                 ELSE window

\* sender.send(update): the channel is unbounded, the send never blocks
send(update) ==
  /\ TotalSent < MaxUpdates
  /\ chan' = Append(chan, update)
  /\ window' = IF mainPc = "settle"
                 THEN [window EXCEPT !.during = @ + 1]
                 ELSE window

Init ==
  /\ items \in Configurations
  /\ SHELL \in Environments(items)
  /\ mainPc = "loop"
  /\ next = 1
  /\ position = 0
  /\ message_vec = <<>>
  /\ print_message = <<>>
  /\ chan = <<>>
  /\ senders = {0}
  /\ runner = [i \in DOMAIN items |-> Unspawned]
  /\ cwd_sets = 0
  /\ stderr = {}
  /\ printed = 0
  /\ last_line = <<>>
  /\ seen = {}
  /\ changes = 0
  /\ window = [before |-> 0, during |-> 0]
  /\ partial = FALSE

AfterItem == IF next + 1 > Len(items) THEN "recv" ELSE "loop"

(* ------------------------------ main thread ---------------------------- *)
\* MainSpawn that hands the runner the position counted one further
MainSpawnNextPosition ==
  /\ mainPc = "loop"
  /\ items[next].section # "missing"
  /\ runner' = [runner EXCEPT ![next] =
                  [Unspawned EXCEPT !.pc = "start", !.position = position + 1]]
  /\ senders' = senders \cup {next}
  /\ mainPc' = "push"
  /\ UNCHANGED <<items, SHELL, next, position, message_vec, print_message,
                 chan, printed, last_line, seen, changes, window, partial,
                 cwd_sets, stderr>>

\* lines 195-205: the name has a section; clone the sender, spawn the runner
MainSpawn ==
  /\ mainPc = "loop"
  /\ items[next].section # "missing"
  /\ runner' = [runner EXCEPT ![next] =
                  [Unspawned EXCEPT !.pc = "start", !.position = position]]
  /\ senders' = senders \cup {next}
  /\ mainPc' = "push"
  /\ UNCHANGED <<items, SHELL, next, position, message_vec, print_message,
                 chan, printed, last_line, seen, changes, window, partial,
                 cwd_sets, stderr>>

\* lines 207-208
MainPush ==
  /\ mainPc = "push"
  /\ position' = position + 1
  /\ message_vec' = Append(message_vec, <<>>)
  /\ next' = next + 1
  /\ mainPc' = AfterItem
  /\ UNCHANGED <<items, SHELL, print_message, chan, senders, runner, cwd_sets,
                 stderr, printed, last_line, seen, changes, window, partial>>

\* MainSkip that counts a position for the name it skips
MainSkipTakesPosition ==
  /\ mainPc = "loop"
  /\ items[next].section = "missing"
  /\ stderr' = stderr \cup {<<next, "No section found">>}
  /\ position' = position + 1
  /\ next' = next + 1
  /\ mainPc' = AfterItem
  /\ UNCHANGED <<items, SHELL, message_vec, print_message, chan, senders,
                 runner, cwd_sets, printed, last_line, seen, changes, window,
                 partial>>

\* lines 210-213: no section of that name
MainSkip ==
  /\ mainPc = "loop"
  /\ items[next].section = "missing"
  /\ stderr' = stderr \cup {<<next, "No section found">>}
  /\ next' = next + 1
  /\ mainPc' = AfterItem
  /\ UNCHANGED <<items, SHELL, position, message_vec, print_message, chan,
                 senders, runner, cwd_sets, printed, last_line, seen, changes,
                 window, partial>>

\* AggRecv without the comparison: every update is taken for a change
AggRecvNoCompare ==
  /\ mainPc = "recv"
  /\ chan # <<>>
  /\ LET line == Head(chan)
         slots == [message_vec EXCEPT ![line.position + 1] = line.message]
         changed == TRUE
     IN /\ message_vec' = slots
        /\ print_message' = IF changed THEN collect(slots) ELSE print_message
        /\ mainPc' = IF changed THEN "settle" ELSE "recv"
        /\ partial' =
             IF changed
               THEN /\ window.before = 0
                    /\ \E k \in 2..window.during :
                         /\ chan[k].position # line.position
                         /\ chan[k].message # slots[chan[k].position + 1]
               ELSE partial
        /\ window' =
             IF changed THEN [before |-> Len(chan) - 1, during |-> 0]
             ELSE IF window.before > 0
               THEN [window EXCEPT !.before = @ - 1]
               ELSE [window EXCEPT !.during = IF @ > 0 THEN @ - 1 ELSE 0]
        /\ seen' = seen \cup {collect(slots)}
        /\ changes' = IF collect(slots) # collect(message_vec)
                        THEN changes + 1 ELSE changes
  /\ chan' = Tail(chan)
  /\ UNCHANGED <<items, SHELL, next, position, senders, runner, cwd_sets,
                 stderr, printed, last_line>>

\* AggRecv that does not remember the line it is about to print
AggRecvForgetsLine ==
  /\ mainPc = "recv"
  /\ chan # <<>>
  /\ LET line == Head(chan)
         slots == [message_vec EXCEPT ![line.position + 1] = line.message]
         changed == print_message # collect(slots)
     IN /\ message_vec' = slots
        /\ print_message' = print_message
        /\ mainPc' = IF changed THEN "settle" ELSE "recv"
        /\ partial' =
             IF changed
               THEN /\ window.before = 0
                    /\ \E k \in 2..window.during :
                         /\ chan[k].position # line.position
                         /\ chan[k].message # slots[chan[k].position + 1]
               ELSE partial
        /\ window' =
             IF changed THEN [before |-> Len(chan) - 1, during |-> 0]
             ELSE IF window.before > 0
               THEN [window EXCEPT !.before = @ - 1]
               ELSE [window EXCEPT !.during = IF @ > 0 THEN @ - 1 ELSE 0]
        /\ seen' = seen \cup {collect(slots)}
        /\ changes' = IF collect(slots) # collect(message_vec)
                        THEN changes + 1 ELSE changes
  /\ chan' = Tail(chan)
  /\ UNCHANGED <<items, SHELL, next, position, senders, runner, cwd_sets,
                 stderr, printed, last_line>>

\* AggRecv that takes the update sent last instead of the one sent first
AggRecvNewestFirst ==
  /\ mainPc = "recv"
  /\ chan # <<>>
  /\ LET line == chan[Len(chan)]
         slots == [message_vec EXCEPT ![line.position + 1] = line.message]
         changed == print_message # collect(slots)
     IN /\ message_vec' = slots
        /\ print_message' = IF changed THEN collect(slots) ELSE print_message
        /\ mainPc' = IF changed THEN "settle" ELSE "recv"
        /\ partial' =
             IF changed
               THEN /\ window.before = 0
                    /\ \E k \in 2..window.during :
                         /\ chan[k].position # line.position
                         /\ chan[k].message # slots[chan[k].position + 1]
               ELSE partial
        /\ window' =
             IF changed THEN [before |-> Len(chan) - 1, during |-> 0]
             ELSE IF window.before > 0
               THEN [window EXCEPT !.before = @ - 1]
               ELSE [window EXCEPT !.during = IF @ > 0 THEN @ - 1 ELSE 0]
        /\ seen' = seen \cup {collect(slots)}
        /\ changes' = IF collect(slots) # collect(message_vec)
                        THEN changes + 1 ELSE changes
  /\ chan' = SubSeq(chan, 1, Len(chan) - 1)
  /\ UNCHANGED <<items, SHELL, next, position, senders, runner, cwd_sets,
                 stderr, printed, last_line>>

\* AggRecv that has no last line to compare with until it has printed one
AggRecvFirstAlways ==
  /\ mainPc = "recv"
  /\ chan # <<>>
  /\ LET line == Head(chan)
         slots == [message_vec EXCEPT ![line.position + 1] = line.message]
         changed == printed = 0 \/ print_message # collect(slots)
     IN /\ message_vec' = slots
        /\ print_message' = IF changed THEN collect(slots) ELSE print_message
        /\ mainPc' = IF changed THEN "settle" ELSE "recv"
        /\ partial' =
             IF changed
               THEN /\ window.before = 0
                    /\ \E k \in 2..window.during :
                         /\ chan[k].position # line.position
                         /\ chan[k].message # slots[chan[k].position + 1]
               ELSE partial
        /\ window' =
             IF changed THEN [before |-> Len(chan) - 1, during |-> 0]
             ELSE IF window.before > 0
               THEN [window EXCEPT !.before = @ - 1]
               ELSE [window EXCEPT !.during = IF @ > 0 THEN @ - 1 ELSE 0]
        /\ seen' = seen \cup {collect(slots)}
        /\ changes' = IF collect(slots) # collect(message_vec)
                        THEN changes + 1 ELSE changes
  /\ chan' = Tail(chan)
  /\ UNCHANGED <<items, SHELL, next, position, senders, runner, cwd_sets,
                 stderr, printed, last_line>>

\* lines 217-222: receive, write the slot, compare with the last line
AggRecv ==
  /\ mainPc = "recv"
  /\ chan # <<>>
  /\ LET line == Head(chan)
         slots == [message_vec EXCEPT ![line.position + 1] = line.message]
         changed == print_message # collect(slots)
     IN /\ message_vec' = slots
        /\ print_message' = IF changed THEN collect(slots) ELSE print_message
        /\ mainPc' = IF changed THEN "settle" ELSE "recv"
        /\ partial' =
             IF changed
               THEN /\ window.before = 0
                    /\ \E k \in 2..window.during :
                         /\ chan[k].position # line.position
                         /\ chan[k].message # slots[chan[k].position + 1]
               ELSE partial
        /\ window' =
             IF changed THEN [before |-> Len(chan) - 1, during |-> 0]
             ELSE IF window.before > 0
               THEN [window EXCEPT !.before = @ - 1]
               ELSE [window EXCEPT !.during = IF @ > 0 THEN @ - 1 ELSE 0]
        /\ seen' = seen \cup {collect(slots)}
        /\ changes' = IF collect(slots) # collect(message_vec)
                        THEN changes + 1 ELSE changes
  /\ chan' = Tail(chan)
  /\ UNCHANGED <<items, SHELL, next, position, senders, runner, cwd_sets,
                 stderr, printed, last_line>>

\* lines 222-223: the settle delay is over, print
AggPrint ==
  /\ mainPc = "settle"
  /\ printed' = printed + 1
  /\ last_line' = print_message
  /\ mainPc' = "recv"
  /\ UNCHANGED <<items, SHELL, next, position, message_vec, print_message,
                 chan, senders, runner, cwd_sets, stderr, seen, changes,
                 window, partial>>

(* -------------------------------- runners ------------------------------ *)
Policy(r) ==
  IF r.is_static THEN "static"
  ELSE IF r.duration.some THEN "periodic" ELSE "streaming"

\* lines 38-115: set the working directory and read the section; an
\* invalid field is reported and panics the thread
RunnerStart(i) ==
  /\ runner[i].pc = "start"
  /\ cwd_sets' = cwd_sets + 1
  /\ LET configuration == items[i]
         fatal == diagnostic(configuration, SHELL)
     IN IF ~fatal.some
          THEN /\ runner' = [runner EXCEPT
                    ![i].pc = "run",
                    ![i].command = command(configuration).val,
                    ![i].is_static = is_static(configuration),
                    ![i].duration = duration(configuration)]
               /\ UNCHANGED <<senders, stderr>>
          ELSE /\ runner' = [runner EXCEPT ![i].pc = "panicked"]
               /\ senders' = senders \ {i}
               /\ stderr' = stderr \cup {<<i, fatal.val>>}
  /\ UNCHANGED <<items, SHELL, mainPc, next, position, message_vec,
                 print_message, chan, printed, last_line, seen, changes,
                 window, partial>>

\* LaunchRun that takes a non-zero exit status for a failure to run
LaunchRunChecksStatus(i, launched, run) ==
  /\ runner[i].pc = "run"
  /\ runner[i].execs < MaxExec
  /\ IF ~launched \/ run.status # 0
      THEN /\ runner' = [runner EXCEPT ![i].pc = "panicked"]
           /\ senders' = senders \ {i}
           /\ stderr' = stderr \cup {<<i, "Failed to run">>}
    ELSE IF ~Completes(runner[i].command)
      THEN /\ runner' = [runner EXCEPT
                ![i].pc = "blocked", ![i].execs = @ + 1]
           /\ UNCHANGED <<senders, stderr>>
      ELSE /\ runner' = [runner EXCEPT
                ![i].pc = IF Policy(runner[i]) = "streaming"
                            THEN "read" ELSE "send",
                ![i].execs = @ + 1,
                ![i].output = run.stdout,
                ![i].status = run.status,
                ![i].errout = run.stderr,
                ![i].rest = IF Policy(runner[i]) = "streaming"
                              THEN lines(run.stdout) ELSE <<>>,
                ![i].emitted = <<>>]
           /\ UNCHANGED <<senders, stderr>>
  /\ UNCHANGED <<items, SHELL, mainPc, next, position, message_vec,
                 print_message, chan, printed, last_line, seen, changes,
                 window, partial, cwd_sets>>

\* lines 118, 124, 131: run the command; expect() panics when it cannot be
\* launched.  output() blocks until the process has ended and returns its
\* status, standard output and standard error; spawn() returns a pipe, and
\* reading it blocks until a line or the end of the output arrives.
LaunchRun(i, launched, run) ==
  /\ runner[i].pc = "run"
  /\ runner[i].execs < MaxExec
  /\ IF ~launched
      THEN /\ runner' = [runner EXCEPT ![i].pc = "panicked"]
           /\ senders' = senders \ {i}
           /\ stderr' = stderr \cup {<<i, "Failed to run">>}
    ELSE IF ~Completes(runner[i].command)
      THEN /\ runner' = [runner EXCEPT
                ![i].pc = "blocked", ![i].execs = @ + 1]
           /\ UNCHANGED <<senders, stderr>>
      ELSE /\ runner' = [runner EXCEPT
                ![i].pc = IF Policy(runner[i]) = "streaming"
                            THEN "read" ELSE "send",
                ![i].execs = @ + 1,
                ![i].output = run.stdout,
                ![i].status = run.status,
                ![i].errout = run.stderr,
                ![i].rest = IF Policy(runner[i]) = "streaming"
                              THEN lines(run.stdout) ELSE <<>>,
                ![i].emitted = <<>>]
           /\ UNCHANGED <<senders, stderr>>
  /\ UNCHANGED <<items, SHELL, mainPc, next, position, message_vec,
                 print_message, chan, printed, last_line, seen, changes,
                 window, partial, cwd_sets>>

\* the launch, with what the system and the command make of it
Launch(i) ==
  \E launched \in BOOLEAN, run \in Runs(runner[i].command) :
    LaunchRun(i, launched, run)

\* Send where the static runner goes on to run the command again
SendAndRerun(i) ==
  /\ runner[i].pc = "send"
  /\ send(Update(i, trim_matches(from_utf8_lossy(runner[i].output))))
  /\ IF runner[i].is_static
       THEN /\ runner' = [runner EXCEPT ![i].pc = "run", ![i].sent = @ + 1]
            /\ senders' = senders
       ELSE /\ runner' = [runner EXCEPT
                 ![i].pc = "sleep", ![i].sent = @ + 1,
                 ![i].slept = Some(runner[i].duration.val)]
            /\ senders' = senders
  /\ UNCHANGED <<items, SHELL, mainPc, next, position, message_vec,
                 print_message, printed, last_line, seen, changes, partial,
                 cwd_sets, stderr>>

\* Send where the periodic runner starts the next run without sleeping
SendNoSleep(i) ==
  /\ runner[i].pc = "send"
  /\ send(Update(i, trim_matches(from_utf8_lossy(runner[i].output))))
  /\ IF runner[i].is_static
       THEN /\ runner' = [runner EXCEPT ![i].pc = "exited", ![i].sent = @ + 1]
            /\ senders' = senders \ {i}
       ELSE /\ runner' = [runner EXCEPT
                 ![i].pc = "run", ![i].sent = @ + 1,
                 ![i].output = <<>>, ![i].status = 0, ![i].errout = <<>>]
            /\ senders' = senders
  /\ UNCHANGED <<items, SHELL, mainPc, next, position, message_vec,
                 print_message, printed, last_line, seen, changes, partial,
                 cwd_sets, stderr>>

\* lines 119 and 125-126: send the trimmed output; a static runner returns,
\* a periodic one goes to sleep for its interval
Send(i) ==
  /\ runner[i].pc = "send"
  /\ send(Update(i, trim_matches(from_utf8_lossy(runner[i].output))))
  /\ IF runner[i].is_static
       THEN /\ runner' = [runner EXCEPT ![i].pc = "exited", ![i].sent = @ + 1]
            /\ senders' = senders \ {i}
       ELSE /\ runner' = [runner EXCEPT
                 ![i].pc = "sleep", ![i].sent = @ + 1,
                 ![i].slept = Some(runner[i].duration.val)]
            /\ senders' = senders
  /\ UNCHANGED <<items, SHELL, mainPc, next, position, message_vec,
                 print_message, printed, last_line, seen, changes, partial,
                 cwd_sets, stderr>>

\* lines 133-135: the next line of the pipe; an Err is dropped by flat_map
ReadLine(i) ==
  /\ runner[i].pc = "read"
  /\ runner[i].rest # <<>>
  /\ LET line == Head(runner[i].rest)
     IN IF line.ok
          THEN /\ send(Update(i, trim_matches(line.val)))
               /\ runner' = [runner EXCEPT
                    ![i].rest = Tail(@), ![i].sent = @ + 1,
                    ![i].emitted = Append(@, trim_matches(line.val))]
          ELSE /\ UNCHANGED <<chan, window>>
               /\ runner' = [runner EXCEPT ![i].rest = Tail(@)]
  /\ UNCHANGED <<items, SHELL, mainPc, next, position, message_vec,
                 print_message, senders, printed, last_line, seen, changes,
                 partial, cwd_sets, stderr>>

\* StreamEnd that starts the next process at once
StreamEndNoPause(i) ==
  /\ runner[i].pc = "read"
  /\ runner[i].rest = <<>>
  /\ runner' = [runner EXCEPT
       ![i].pc = "run", ![i].output = <<>>, ![i].status = 0,
       ![i].errout = <<>>, ![i].emitted = <<>>]
  /\ UNCHANGED <<items, SHELL, mainPc, next, position, message_vec,
                 print_message, chan, senders, printed, last_line, seen,
                 changes, window, partial, cwd_sets, stderr>>

\* lines 133, 136: the pipe is at end of file; pause before the restart
StreamEnd(i) ==
  /\ runner[i].pc = "read"
  /\ runner[i].rest = <<>>
  /\ runner' = [runner EXCEPT
       ![i].pc = "sleep", ![i].slept = Some(RestartPause)]
  /\ UNCHANGED <<items, SHELL, mainPc, next, position, message_vec,
                 print_message, chan, senders, printed, last_line, seen,
                 changes, window, partial, cwd_sets, stderr>>

\* lines 126-127 and 136-137: the sleep returns, next turn of the loop
Wake(i) ==
  /\ runner[i].pc = "sleep"
  /\ runner' = [runner EXCEPT
       ![i].pc = "run", ![i].output = <<>>, ![i].status = 0,
       ![i].errout = <<>>, ![i].emitted = <<>>, ![i].slept = None]
  /\ UNCHANGED <<items, SHELL, mainPc, next, position, message_vec,
                 print_message, chan, senders, printed, last_line, seen,
                 changes, window, partial, cwd_sets, stderr>>

Next ==
  \/ MainSpawn
  \/ MainPush
  \/ MainSkip
  \/ AggRecv
  \/ AggPrint
  \/ \E i \in DOMAIN items : RunnerStart(i)
  \/ \E i \in DOMAIN items : Launch(i)
  \/ \E i \in DOMAIN items : Send(i)
  \/ \E i \in DOMAIN items : ReadLine(i)
  \/ \E i \in DOMAIN items : StreamEnd(i)
  \/ \E i \in DOMAIN items : Wake(i)

Spec == Init /\ [][Next]_vars

\* the order lists the progress properties are checked on: a hanging item
\* next to a running one, two running items, a name without a section
FairConfigurations ==
  {<<h, b>> : h \in HangingSpecs, b \in {PeriodicItem, StreamingItem}}
    \cup {<<StreamingItem, PeriodicItem>>, <<MissingItem, StaticItem>>}

FairInit == Init /\ items \in FairConfigurations

\* the steps of the main thread
Main == MainSpawn \/ MainPush \/ MainSkip \/ AggRecv \/ AggPrint

\* the main thread is a thread of its own that never waits for a runner:
\* the scheduler lets it take the step it can take
FairSpec == FairInit /\ [][Next]_vars /\ WF_vars(Main)

(* ------------------------------ vocabulary ----------------------------- *)
Spawned(i) == runner[i].pc # "unspawned"

\* the runner r got past its startup path (lines 38-115)
IsRunning(r) == r.pc \notin {"unspawned", "start"} /\ r.command # ""

Running(i) == IsRunning(runner[i])

Terminated(i) == runner[i].pc \in {"exited", "panicked"}

\* number of characters of the slots before slot i
RECURSIVE Offset(_, _)
Offset(slots, i) ==
  IF i = 1 THEN 0 ELSE Offset(slots, i - 1) + Len(slots[i - 1])

\* line is the slots side by side: slot i fills the characters from
\* Offset(slots, i) + 1 on, and nothing follows the last slot
InOrder(line, slots) ==
  /\ Len(line) = Offset(slots, Len(slots) + 1)
  /\ \A i \in DOMAIN slots :
       SubSeq(line, Offset(slots, i) + 1, Offset(slots, i) + Len(slots[i]))
         = slots[i]

(* -------------------------------- claims ------------------------------- *)
\* C1: every printed line is the slots the aggregator holds when it
\* prints, side by side in position order with nothing in between,
\* whatever order the updates arrived in.
C1_PrintedInPositionOrder ==
  [][printed' = printed + 1 => InOrder(last_line', message_vec')]_vars

\* a static item before a streaming one; the streaming item's updates
\* were received first (the line was "b" at some point), and the line
\* printed last is "ab"
C1_Witness ==
  /\ items = <<StaticItem, StreamingItem>>
  /\ message_vec = << <<"a">>, <<"b">> >>
  /\ <<"b">> \in seen
  /\ printed > 0
  /\ mainPc = "recv"
  /\ last_line = <<"a", "b">>

\* C2: of two updates that different items send during the same settle
\* delay, none gets a line of its own that does not show the other.
C2_SettleDelayCoalesces == ~(partial /\ mainPc = "recv")

\* the configuration has a section for every name and all are static
AllStatic ==
  \A i \in DOMAIN items :
    items[i].section = "table" /\ is_static(items[i])

\* receiver.iter() returns None: nothing queued and no Sender left
Disconnected == chan = <<>> /\ senders = {}

\* C3: with static items only, once every runner has sent its update and
\* returned and the updates are received, the receive loop ends.
C3_StaticOnlyTerminates ==
  (/\ AllStatic
   /\ \A i \in DOMAIN items : runner[i].pc = "exited"
   /\ mainPc = "recv"
   /\ chan = <<>>) => Disconnected

\* C4: once a runner has hit a fatal condition nothing goes on: no update
\* is sent or received and no line is printed.
C4_FatalStopsEverything ==
  [][(\E i \in DOMAIN items : runner[i].pc = "panicked")
       => /\ chan' = chan
          /\ printed' = printed]_vars

ScenarioLine ==
  <<"1", "2", ":", "0", "0", "8", "7", "%", "0", ".", "4", "2">>

\* C5: three static items printing "12:00", "87%", "0.42" give exactly one
\* line, "12:0087%0.42", and no line with only some of the outputs.
C5_ScenarioPrintsOneLine ==
  items = Scenario =>
    /\ printed <= 1
    /\ mainPc = "settle" => print_message = ScenarioLine
    /\ printed = 1 => last_line = ScenarioLine


\* C6: an update after which the recomputed line equals the last line
\* prints nothing and leaves the last line as it is, and no line is
\* printed twice in a row.
C6_UnchangedLineNotPrinted ==
  [][/\ (Len(chan') < Len(chan) /\ InOrder(print_message, message_vec'))
          => /\ printed' = printed
             /\ print_message' = print_message
             /\ mainPc' = "recv"
     /\ (printed' = printed + 1 /\ printed > 0)
          => last_line' # last_line]_vars

\* every update sent was received, two or more of them, one line printed
C6_Witness ==
  /\ TotalSent >= 2
  /\ chan = <<>>
  /\ mainPc = "recv"
  /\ printed = 1
  /\ last_line # <<>>

\* C7 as stated: the lines printed are as many as the distinct values the
\* recomputed line has taken (with or without counting the empty line the
\* aggregator starts from).
C7_PrintsEqualDistinctLines ==
  mainPc = "recv" =>
    printed \in {Cardinality(seen), Cardinality(seen \cup {<<>>}) - 1}

\* C7, amended: the lines printed are as many as the updates whose receipt
\* changed the recomputed line; a line that comes back is printed again.
C7_PrintsEqualChanges ==
  printed + (IF mainPc = "settle" THEN 1 ELSE 0) = changes

\* the line went a, b, a: three lines printed, two distinct values
C7_Witness ==
  /\ printed = 3
  /\ Cardinality(seen) = 2
  /\ mainPc = "recv"

\* C8: a static runner runs its command once, sends one update and
\* returns; no other runner sends for its position.
C8_StaticSendsOnce ==
  \A i \in DOMAIN items :
    (Running(i) /\ runner[i].is_static) =>
      /\ runner[i].pc \in {"run", "blocked", "send", "exited", "panicked"}
      /\ runner[i].pc = "blocked" => runner[i].execs = 1 /\ runner[i].sent = 0
      /\ runner[i].pc = "run" => runner[i].execs = 0 /\ runner[i].sent = 0
      /\ runner[i].pc = "send" => runner[i].execs = 1 /\ runner[i].sent = 0
      /\ runner[i].pc = "exited" => runner[i].execs = 1 /\ runner[i].sent = 1
      /\ runner[i].pc = "panicked" => runner[i].execs = 0 /\ runner[i].sent = 0
      /\ \A j \in DOMAIN items :
           (j # i /\ Spawned(j)) => runner[j].position # runner[i].position
      /\ Cardinality({k \in DOMAIN chan :
                        chan[k].position = runner[i].position}) <= 1

\* a static runner has returned after its one update, next to a periodic
\* runner that has sent twice
C8_Witness ==
  \E i, j \in DOMAIN items :
    /\ runner[i].is_static
    /\ runner[i].pc = "exited"
    /\ runner[i].sent = 1
    /\ runner[j].sent = 2

IsPeriodic(r) == IsRunning(r) /\ Policy(r) = "periodic"

IsStreaming(r) == IsRunning(r) /\ Policy(r) = "streaming"

Periodic(i) == IsPeriodic(runner[i])

Streaming(i) == IsStreaming(runner[i])

PeriodicState(r, configuration) ==
  IsPeriodic(r) =>
    /\ r.pc \in {"run", "blocked", "send", "sleep", "panicked"}
    /\ r.pc \in {"blocked", "send"} => r.sent = r.execs - 1
    /\ r.pc \notin {"blocked", "send"} => r.sent = r.execs
    /\ r.pc = "sleep" => r.slept = Some(configuration.reload.milli)

NumLines(raw) ==
  Cardinality({k \in DOMAIN raw : raw[k] = LF})
    + (IF raw # <<>> /\ raw[Len(raw)] # LF THEN 1 ELSE 0)

RECURSIVE ValidLines(_)
ValidLines(results) ==
  IF results = <<>> THEN <<>>
  ELSE (IF Head(results).ok THEN <<trim_matches(Head(results).val)>> ELSE <<>>)
         \o ValidLines(Tail(results))

\* C10, amended: a streaming runner sends one update for each line of the
\* output that is valid UTF-8, in order (a line that is not is dropped);
\* when the output ends it sleeps the fixed pause and only then starts a
\* new process; it stops only by the panic of a failed launch.
\* where a streaming runner r can be
StreamingState(r) ==
  IsStreaming(r) =>
    /\ r.pc \in {"run", "blocked", "read", "sleep", "panicked"}
    /\ r.pc \in {"read", "sleep"} =>
         r.emitted \o ValidLines(r.rest) = ValidLines(lines(r.output))
    /\ r.pc = "sleep" => r.rest = <<>> /\ r.slept = Some(RestartPause)

HasSection(i) == items[i].section # "missing"

\* the items before item i that have a section
Rank(i) == Cardinality({j \in 1..(i - 1) : HasSection(j)})

\* C11: a name without a section gets a diagnostic and no runner, position
\* or slot; the items that have a section get the positions 0..N-1 in
\* declared order, there are N slots, and every update carries the
\* position of the item that sent it.
C11_MissingItemSkipped ==
  /\ \A i \in DOMAIN items :
       /\ ~HasSection(i) => runner[i].pc = "unspawned"
       /\ (~HasSection(i) /\ i < next) => <<i, "No section found">> \in stderr
       /\ Spawned(i) => HasSection(i) /\ runner[i].position = Rank(i)
  /\ mainPc # "push" => position = Rank(next) /\ Len(message_vec) = Rank(next)
  /\ mainPc \in {"recv", "settle"} => next = Len(items) + 1
  /\ \A k \in DOMAIN chan :
       \E i \in DOMAIN items :
         Spawned(i) /\ runner[i].position = chan[k].position

\* the first name has no section: the second item has position 0 and its
\* output is the whole printed line
C11_Witness ==
  /\ items = <<MissingItem, StaticItem>>
  /\ <<1, "No section found">> \in stderr
  /\ runner[2].position = 0
  /\ message_vec = << <<"a">> >>
  /\ printed = 1
  /\ last_line = <<"a">>

\* the runner waits for a command that never completes or never writes
Blocked(i) == runner[i].pc = "blocked"

\* updates the aggregator has taken from the channel
Received == TotalSent - Len(chan)

\* the step runner j is at can be taken, whatever the other runners and
\* the aggregator are doing
CanStep(j) ==
  /\ runner[j].pc = "start" => ENABLED RunnerStart(j)
  /\ (runner[j].pc = "run" /\ runner[j].execs < MaxExec) => ENABLED Launch(j)
  /\ (runner[j].pc = "send" /\ TotalSent < MaxUpdates) => ENABLED Send(j)
  /\ (runner[j].pc = "read" /\ TotalSent < MaxUpdates) =>
       ENABLED (ReadLine(j) \/ StreamEnd(j))
  /\ runner[j].pc = "sleep" => ENABLED Wake(j)

SomeBlocked == \E i \in DOMAIN items : Blocked(i)

\* C12: when the command of one item hangs, that runner alone stands
\* still: every other runner can take its next step (none waits for a
\* runner or for room in the channel), and every update the others send
\* is received and, the line being recomputed, shown by the last line.
C12_HangStallsOnlyItsItem ==
  /\ [](SomeBlocked => \A j \in DOMAIN items : CanStep(j))
  /\ [][\A i \in DOMAIN items : Blocked(i) => runner'[i] = runner[i]]_vars
  /\ \A n \in 1..MaxUpdates :
       (SomeBlocked /\ TotalSent >= n)
         ~> (Received >= n /\ mainPc = "recv"
               /\ last_line = collect(message_vec))

\* a periodic item's command hangs; the streaming item after it has sent
\* "a" and "b", both were received and "b" is the line printed last
C12_Witness ==
  /\ items = <<HangingPeriodicItem, StreamingItem>>
  /\ Blocked(1)
  /\ runner[2].sent = 2
  /\ chan = <<>>
  /\ mainPc = "recv"
  /\ printed = 2
  /\ last_line = <<"b">>

\* the run of runner r ended in a runtime failure: a non-zero exit status,
\* output on standard error, or nothing on standard output
FailedRun(r) == r.status # 0 \/ r.errout # <<>> \/ r.output = <<>>

\* C13: a launched command that fails at run time is no error: where a
\* launch can panic, each such run can happen too, without a panic; a
\* static or periodic runner sends the
\* update of that run, the trimmed standard output even when empty, and
\* goes on as its policy says; a streaming runner goes on reading and
\* restarts; a runner panics at its start or at a launch only.
C13_RuntimeFailureIsNoError ==
  [][\A i \in DOMAIN items :
       /\ (runner[i].pc = "run" /\ runner'[i].pc = "panicked"
              /\ Completes(runner[i].command)) =>
            \A run \in Runs(runner[i].command) :
              ENABLED (/\ LaunchRun(i, TRUE, run)
                       /\ runner'[i].pc \in {"send", "read"}
                       /\ runner'[i].output = run.stdout
                       /\ runner'[i].status = run.status)
       /\ (runner[i].pc = "send" /\ FailedRun(runner[i])
              /\ runner'[i] # runner[i]) =>
            /\ chan' = Append(chan,
                 [position |-> runner[i].position,
                  message |-> trim_matches(from_utf8_lossy(runner[i].output))])
            /\ runner'[i].sent = runner[i].sent + 1
            /\ runner'[i].pc = IF runner[i].is_static THEN "exited" ELSE "sleep"
       /\ (runner[i].pc = "read" /\ FailedRun(runner[i])
              /\ runner'[i] # runner[i]) =>
            runner'[i].pc \in {"read", "sleep"}
       /\ (runner'[i].pc = "panicked" /\ runner[i].pc # "panicked") =>
            /\ runner[i].pc \in {"start", "run"}
            /\ runner[i].status = 0 /\ runner[i].output = <<>>]_vars

\* a periodic runner printed "a", then its command failed with nothing on
\* standard output: the empty update was sent, received and printed, and
\* the runner sleeps before its next run
C13_Witness ==
  /\ items = <<PeriodicItem>>
  /\ runner[1].pc = "sleep"
  /\ runner[1].status = 1
  /\ runner[1].sent = 2
  /\ chan = <<>>
  /\ printed = 2
  /\ last_line = <<>>

\* the messages queued in q for position p, in queue order
QueuedFor(q, p) ==
  LET own == SelectSeq(q, LAMBDA u : u.position = p)
  IN [k \in DOMAIN own |-> own[k].message]

IsSuffix(a, b) ==
  Len(a) <= Len(b) /\ a = SubSeq(b, Len(b) - Len(a) + 1, Len(b))

\* C14: a send puts the update behind those queued and a receive takes the
\* one at the front, so the updates of one runner are received in the
\* order sent (what is queued for a streaming runner's position ends with
\* the lines it sent, or is the end of them), whatever updates of other
\* runners lie between; a receive writes the message into the slot of its
\* position and into no other, and nothing else changes a slot: each slot
\* holds the message received last for its position, or is empty.
C14_SlotsHoldLatestUpdate ==
  [][/\ Len(chan') > Len(chan) =>
          /\ Len(chan') = Len(chan) + 1
          /\ SubSeq(chan', 1, Len(chan)) = chan
          /\ message_vec' = message_vec
     /\ Len(chan') < Len(chan) =>
          /\ chan' = Tail(chan)
          /\ message_vec' =
               [message_vec EXCEPT ![Head(chan).position + 1] =
                                     Head(chan).message]
     /\ Len(chan') = Len(chan) =>
          /\ chan' = chan
          /\ message_vec' \in {message_vec, Append(message_vec, <<>>)}
     /\ \A i \in DOMAIN items :
          (IsStreaming(runner'[i]) /\ runner'[i].pc \in {"read", "sleep"}) =>
            LET queued == QueuedFor(chan', runner'[i].position)
            IN IsSuffix(queued, runner'[i].emitted)
                 \/ IsSuffix(runner'[i].emitted, queued)]_vars

\* the streaming item's "a" was received; its "b" is queued behind the
\* update of the periodic item that was sent in between
C14_Witness ==
  /\ items = <<StreamingItem, PeriodicItem>>
  /\ message_vec = << <<"a">>, <<>> >>
  /\ chan = <<[position |-> 1, message |-> <<"a">>],
              [position |-> 0, message |-> <<"b">>]>>

\* C15: the working directory is set once, before any runner has got
\* past its start or launched a command, and never again.
C15_WorkingDirSetOnce ==
  [][cwd_sets' # cwd_sets =>
       /\ cwd_sets = 0
       /\ \A i \in DOMAIN items : ~Running(i) /\ runner[i].execs = 0]_vars

\* C16: a runner whose section has a reload value that is not a number
\* stops with a fatal error when it reads its section: it launches no
\* command and sends no update.
C16_NonNumericReloadIsFatal ==
  \A i \in DOMAIN items :
    (/\ HasSection(i)
     /\ items[i].reload.type \notin {"none", "integer", "float"}
     /\ runner[i].pc \notin {"unspawned", "start"}) =>
      /\ runner[i].pc = "panicked"
      /\ runner[i].execs = 0
      /\ runner[i].sent = 0

\* C17: every update is consumed exactly once.  A runner that sends adds
\* one entry for its position at the back of the channel, wherever the
\* main thread is; an entry leaves the channel only at the front, by the
\* receive that writes it into its slot; and with the main thread
\* scheduled fairly, the n-th update sent is eventually received.
C17_EveryUpdateConsumedOnce ==
  /\ [][/\ \A i \in DOMAIN items :
            /\ runner'[i].sent \in {runner[i].sent, runner[i].sent + 1}
            /\ runner'[i].sent = runner[i].sent + 1 =>
                 /\ Len(chan') = Len(chan) + 1
                 /\ SubSeq(chan', 1, Len(chan)) = chan
                 /\ chan'[Len(chan')].position = runner[i].position
        /\ (\A j \in DOMAIN items : runner'[j].sent = runner[j].sent) =>
             \/ chan' = chan
             \/ (/\ mainPc = "recv"
                 /\ chan # <<>>
                 /\ chan' = Tail(chan)
                 /\ message_vec'[Head(chan).position + 1]
                      = Head(chan).message)]_vars
  /\ \A n \in 1..MaxUpdates : (TotalSent >= n) ~> (Received >= n)

\* one update was received and started the settle delay; the two updates
\* sent during the delay are both in the channel
C17_Witness ==
  /\ mainPc = "settle"
  /\ Received = 1
  /\ window = [before |-> 0, during |-> 2]
  /\ Len(chan) = 2
  /\ chan[1].position # chan[2].position

\* where a runner r that has read the section configuration can be, by
\* the fields of the section
PolicyState(r, configuration) ==
  IsRunning(r) =>
    /\ configuration.static = "true" =>
         /\ Policy(r) = "static"
         /\ r.pc \in {"run", "blocked", "send", "exited", "panicked"}
    /\ (/\ configuration.static # "true"
        /\ configuration.reload.type \in {"integer", "float"}) =>
         /\ Policy(r) = "periodic"
         /\ r.duration = Some(configuration.reload.milli)
         /\ r.pc \in {"run", "blocked", "send", "sleep", "panicked"}
    /\ (configuration.static # "true" /\ configuration.reload.type = "none") =>
         /\ Policy(r) = "streaming"
         /\ r.pc \in {"run", "blocked", "read", "sleep", "panicked"}

\* C18: static = true gives the run-once policy, with or without a reload
\* value; otherwise an integer or float reload gives the periodic policy;
\* otherwise, with no reload field, the streaming policy; the runner is
\* only ever at steps of that policy, and what it chose at its start
\* (is_static, duration) never changes.
C18_OnePolicyForLife ==
  [][\A i \in DOMAIN items :
       /\ PolicyState(runner'[i], items[i])
       /\ Running(i) =>
            /\ runner'[i].is_static = runner[i].is_static
            /\ runner'[i].duration = runner[i].duration]_vars

\* an item with static = true and reload = 1 ran once, sent its update
\* and returned
C18_Witness ==
  /\ items = <<StaticReloadItem>>
  /\ runner[1].pc = "exited"
  /\ runner[1].execs = 1
  /\ runner[1].sent = 1
  /\ chan = <<>>

\* C19: the receive loop starts when the spawn loop has ended: at every
\* receive there is one slot for each spawned runner and the position of
\* the update received is less than the number of slots, though a runner
\* may send before its slot exists; a slot is appended, empty, by the
\* spawn loop only, and what the slots hold and the last line change at
\* a receive only, never at a step of a runner.
C19_SlotsCompleteBeforeReceive ==
  [][/\ Len(chan') < Len(chan) =>
          /\ mainPc = "recv"
          /\ next = Len(items) + 1
          /\ Len(message_vec) = Rank(Len(items) + 1)
          /\ Head(chan).position < Len(message_vec)
          /\ Len(message_vec') = Len(message_vec)
     /\ Len(chan') >= Len(chan) =>
          /\ print_message' = print_message
          /\ \/ message_vec' = message_vec
             \/ (/\ mainPc = "push"
                 /\ message_vec' = Append(message_vec, <<>>))
     /\ \A i \in DOMAIN items :
          (Spawned(i) /\ runner'[i] # runner[i]) =>
            /\ message_vec' = message_vec
            /\ print_message' = print_message]_vars

\* a runner has sent its update and main has not yet appended its slot
C19_Witness ==
  /\ mainPc = "push"
  /\ chan # <<>>
  /\ chan[Len(chan)].position = Len(message_vec)
  /\ runner[next].sent = 1

\* C20: the last line starts empty, so while nothing was printed an
\* update that leaves the joined slots empty prints nothing; the first
\* line printed is not empty, an empty line is printed only after a line
\* that is not, and while every update received was empty no line is
\* printed at all.
C20_FirstLineNeverEmpty ==
  [][/\ (/\ printed = 0
         /\ Len(chan') < Len(chan)
         /\ collect(message_vec') = <<>>) =>
          /\ mainPc' = "recv"
          /\ print_message' = <<>>
     /\ (printed = 0 /\ printed' = 1) => last_line' # <<>>
     /\ (printed' = printed + 1 /\ last_line' = <<>>) =>
          printed > 0 /\ last_line # <<>>
     /\ seen' \subseteq {<<>>} => printed' = 0]_vars

\* two updates were received, both empty, and nothing was printed
C20_Witness ==
  /\ TotalSent >= 2
  /\ chan = <<>>
  /\ mainPc = "recv"
  /\ seen = {<<>>}
  /\ printed = 0

====
